---------------------------- MODULE Spec2Model ----------------------------
(***************************************************************************)
(* A model of helicopter_game (src/src/main.rs): the fixed-point game      *)
(* field, its xorshift generator, the physics step of GameField::render    *)
(* and the session loop of game().                                         *)
(*                                                                         *)
(* Fxpt values are the scaled i16 integers themselves.  Arithmetic on them *)
(* goes through I16, the two's-complement wrap of a release build.  The    *)
(* wall clock, the mouse button and the space key are inputs of each       *)
(* render call.  Colours, float conversion and the drawing calls are left  *)
(* out; the object list is kept as rectangles without colour.              *)
(***************************************************************************)
EXTENDS Integers, Sequences, FiniteSets, TLC

VARIABLES
    field,       \* the GameField owned by game()'s inner loop
    high_score,  \* game()'s high_score
    new_score,   \* game()'s new_score
    replay,      \* game()'s replay: None or Some(bytes of the replay file)
    probe        \* arguments and result of a stand-alone function application

vars == <<field, high_score, new_score, replay, probe>>

---------------------------------------------------------------------------
(* Bounds of the model *)

\* Render calls without a physics step allowed to one field
MaxIdleRenders == 2

\* Physics steps explored with live mouse input (no replay attached)
MaxLiveFrames == 10

\* Largest coordinate of the rectangles the overlap test is probed with
MaxCoord == 2

---------------------------------------------------------------------------
(* Integer helpers: Rust's i16 / u16 casts and operators *)

\* Two's-complement wrap of an integer to i16
I16(v) == ((v + 32768) % 65536) - 32768

\* Cast to u16
U16(v) == v % 65536

\* Rust's % on signed integers: the remainder takes the dividend's sign
RemTrunc(a, b) == IF a >= 0 THEN a % b ELSE -((-a) % b)

\* Ord::max / Ord::min / Ord::clamp
Max(a, b) == IF a >= b THEN a ELSE b

Min(a, b) == IF a <= b THEN a ELSE b

Clamp(v, lo, hi) == IF v < lo THEN lo ELSE IF v > hi THEN hi ELSE v

\* Option<T> as a sequence of length 0 or 1
None == <<>>

Some(v) == <<v>>

---------------------------------------------------------------------------
(* Constants of the program *)

FIXED_POINT_SHIFT == 5

FIXED_POINT_DIVISOR == 2 ^ FIXED_POINT_SHIFT

GAME_FIELD_WIDTH == 400 * FIXED_POINT_DIVISOR

GAME_FIELD_HEIGHT == 300 * FIXED_POINT_DIVISOR

PLAYER_X == 100 * FIXED_POINT_DIVISOR

PLAYER_SIZE == 48 * FIXED_POINT_DIVISOR

OBSTACLE_WIDTH == 25 * FIXED_POINT_DIVISOR

\* (1.6 * 32 as f32) as i16: the float-to-int cast truncates 51.2 to 51
GRAVITY == (16 * FIXED_POINT_DIVISOR) \div 10

\* (0.9 * 32 as f32) as i16: 28.8 truncates to 28
FRICTION == (9 * FIXED_POINT_DIVISOR) \div 10

INPUT_IMPULSE == 2 * FIXED_POINT_DIVISOR

\* b'0' and b'1'
ByteZero == 48

ByteOne == 49

\* impl From<i16> for Fxpt
FxptFrom(val) == I16(val * FIXED_POINT_DIVISOR)

---------------------------------------------------------------------------
(* Rng: the 64-bit state is the set of its one-bits (bit 0 is the least    *)
(* significant)                                                            *)

\* Hex digits of 0x1337133713371337, most significant first
RNG_SEED_HEX == <<1, 3, 3, 7, 1, 3, 3, 7, 1, 3, 3, 7, 1, 3, 3, 7>>

\* Rng::new
RngNew ==
    { b \in 0..63 :
        (RNG_SEED_HEX[16 - (b \div 4)] \div (2 ^ (b % 4))) % 2 = 1 }

\* u64 << n : bits shifted past bit 63 are dropped
Shl(s, n) == { b + n : b \in { c \in s : c + n <= 63 } }

\* u64 >> n
Shr(s, n) == { b - n : b \in { c \in s : c >= n } }

Xor(a, b) == (a \ b) \cup (b \ a)

\* The state after Rng::rand
RngAdvance(s) ==
    LET s1 == Xor(s, Shl(s, 13))
        s2 == Xor(s1, Shr(s1, 17))
        s3 == Xor(s2, Shl(s2, 43))
    IN  s3

\* The number formed by the bits below bit i of a state
RECURSIVE LowBits(_, _)
LowBits(s, i) ==
    IF i = 0 THEN 0
    ELSE LowBits(s, i - 1) + (IF (i - 1) \in s THEN 2 ^ (i - 1) ELSE 0)

\* rand() as u16 : rand returns the state before the update
RandU16(s) == LowBits(s, 16)

\* rand() as i16
RandI16(s) == I16(RandU16(s))

---------------------------------------------------------------------------
(* GameField *)

\* struct Obstacle
Obstacle(x, y, width, height) ==
    [x |-> x, y |-> y, width |-> width, height |-> height]

\* GameField::new (last_frame and start_time are clock readings, not kept)
GameFieldNew ==
    [ rng            |-> RngNew,
      frames         |-> 0,
      physics_frames |-> 0,
      player_y       |-> GAME_FIELD_HEIGHT \div 2,
      objects        |-> <<>>,
      player_speed   |-> 0,
      walls          |-> <<>>,
      obstacles      |-> <<>>,
      last_obstacle  |-> 0,
      wall_skew      |-> 0,
      dead           |-> FALSE,
      replay         |-> None,
      inputs         |-> <<>> ]

\* Flying that reads the mouse button even with a replay attached (a mutant)
FlyingReadsMouse(f, mouse) ==
    \/ mouse
    \/ /\ f.replay # None
       /\ f.replay[1] # <<>>
       /\ Head(f.replay[1]) = ByteOne

\* Whether the step flies: the live mouse button when no replay is attached,
\* otherwise whether the byte popped from the replay is b'1'
Flying(f, mouse) ==
    \/ f.replay = None /\ mouse
    \/ /\ f.replay # None
       /\ f.replay[1] # <<>>
       /\ Head(f.replay[1]) = ByteOne

\* The replay queue after replay.as_mut().and_then(|x| x.pop_front())
PopReplay(r) ==
    IF r = None \/ r[1] = <<>> THEN r ELSE Some(Tail(r[1]))

\* ApplyInput that draws a number from the RNG on a step that flies (a
\* mutant)
ApplyInputDrawing(f, mouse) ==
    IF Flying(f, mouse)
    THEN [f EXCEPT !.replay = PopReplay(@),
                   !.player_speed = I16(@ - INPUT_IMPULSE),
                   !.inputs = Append(@, ByteOne),
                   !.rng = RngAdvance(@)]
    ELSE [f EXCEPT !.replay = PopReplay(@),
                   !.inputs = Append(@, ByteZero)]

\* ApplyInput that records nothing on a step that does not fly (a mutant)
ApplyInputLogsFlights(f, mouse) ==
    IF Flying(f, mouse)
    THEN [f EXCEPT !.replay = PopReplay(@),
                   !.player_speed = I16(@ - INPUT_IMPULSE),
                   !.inputs = Append(@, ByteOne)]
    ELSE [f EXCEPT !.replay = PopReplay(@)]

\* Update player speed if we're flying, and record the input
ApplyInput(f, mouse) ==
    IF Flying(f, mouse)
    THEN [f EXCEPT !.replay = PopReplay(@),
                   !.player_speed = I16(@ - INPUT_IMPULSE),
                   !.inputs = Append(@, ByteOne)]
    ELSE [f EXCEPT !.replay = PopReplay(@),
                   !.inputs = Append(@, ByteZero)]

\* Move the map: every wall and obstacle goes left by Fxpt::from(8)
Scroll(list) ==
    [i \in 1..Len(list) |-> [list[i] EXCEPT !.x = I16(@ - FxptFrom(8))]]

MoveMap(f) ==
    [f EXCEPT !.walls = Scroll(@), !.obstacles = Scroll(@)]

\* LastX with the field's width as the default (a mutant)
LastXFieldWidth(f) ==
    IF Len(f.walls) = 0
    THEN GAME_FIELD_WIDTH
    ELSE f.walls[Len(f.walls)].x

\* The x of the last wall, or the default when there is none
LastX(f) ==
    IF Len(f.walls) = 0
    THEN I16(GAME_FIELD_WIDTH - OBSTACLE_WIDTH)
    ELSE f.walls[Len(f.walls)].x

\* Whether this step creates a pair of walls
SpawnDue(f) == LastX(f) <= I16(GAME_FIELD_WIDTH - OBSTACLE_WIDTH)

\* GapReduction without the cap of 70 (a mutant)
GapReductionUncapped(f) == f.physics_frames \div 32

\* (physics_frames / 32).min(70) as i16
GapReduction(f) == Min(f.physics_frames \div 32, 70)

\* The gap between the walls created at this physics frame
Gap(f) == FxptFrom(250 - GapReduction(f))

\* Rust's integer division truncates toward zero
DivTrunc(a, b) == IF a >= 0 THEN a \div b ELSE -((-a) \div b)

WallSize(f) == DivTrunc(I16(GAME_FIELD_HEIGHT - Gap(f)), 2)

\* NextSkew without the clamp (a mutant)
NextSkewUnclamped(f) ==
    I16(f.wall_skew + RemTrunc(RandI16(f.rng), FIXED_POINT_DIVISOR * 8))

\* The wall skew after its update, which draws one number
NextSkew(f) ==
    Clamp(I16(f.wall_skew + RemTrunc(RandI16(f.rng), FIXED_POINT_DIVISOR * 8)),
          -WallSize(f), WallSize(f))

\* ObstacleDue without the spacing (a mutant)
ObstacleDueAlways(f) == f.physics_frames >= f.last_obstacle

\* Whether a floating obstacle goes with the walls created at this frame
ObstacleDue(f) == f.physics_frames - f.last_obstacle >= 30

\* CreateWalls that places the obstacle by its offset from the field's top,
\* not from the top wall's end (a mutant)
CreateWallsOffsetFromTop(f) ==
    IF ~SpawnDue(f) THEN f
    ELSE
    LET last_x    == LastX(f)
        gap       == Gap(f)
        wall_size == WallSize(f)
        skew      == NextSkew(f)
        rng1      == RngAdvance(f.rng)
        top       == Obstacle(I16(last_x + OBSTACLE_WIDTH), 0, OBSTACLE_WIDTH,
                              I16(wall_size + skew))
        bottom    == Obstacle(I16(last_x + OBSTACLE_WIDTH),
                              I16(GAME_FIELD_HEIGHT - I16(wall_size - skew)),
                              OBSTACLE_WIDTH, I16(wall_size - skew))
        location  == I16(RandU16(rng1) % U16(I16(gap - FxptFrom(60))))
        floating  == Obstacle(I16(last_x + OBSTACLE_WIDTH), location,
                              OBSTACLE_WIDTH, FxptFrom(60))
        g         == [f EXCEPT !.wall_skew = skew,
                               !.rng = rng1,
                               !.walls = @ \o <<top, bottom>>]
    IN  IF ObstacleDue(f)
        THEN [g EXCEPT !.rng = RngAdvance(rng1),
                       !.obstacles = Append(@, floating),
                       !.last_obstacle = f.physics_frames]
        ELSE g

\* Create walls, and the obstacle between them when one is due
CreateWalls(f) ==
    IF ~SpawnDue(f) THEN f
    ELSE
    LET last_x    == LastX(f)
        gap       == Gap(f)
        wall_size == WallSize(f)
        skew      == NextSkew(f)
        rng1      == RngAdvance(f.rng)
        top       == Obstacle(I16(last_x + OBSTACLE_WIDTH), 0, OBSTACLE_WIDTH,
                              I16(wall_size + skew))
        bottom    == Obstacle(I16(last_x + OBSTACLE_WIDTH),
                              I16(GAME_FIELD_HEIGHT - I16(wall_size - skew)),
                              OBSTACLE_WIDTH, I16(wall_size - skew))
        location  == I16(RandU16(rng1) % U16(I16(gap - FxptFrom(60))))
        floating  == Obstacle(I16(last_x + OBSTACLE_WIDTH),
                              I16(I16(wall_size + skew) + location),
                              OBSTACLE_WIDTH, FxptFrom(60))
        g         == [f EXCEPT !.wall_skew = skew,
                               !.rng = rng1,
                               !.walls = @ \o <<top, bottom>>]
    IN  IF ObstacleDue(f)
        THEN [g EXCEPT !.rng = RngAdvance(rng1),
                       !.obstacles = Append(@, floating),
                       !.last_obstacle = f.physics_frames]
        ELSE g

\* OnScreen with >= in the place of > (a mutant: an element whose right edge
\* is exactly at 0 is kept)
OnScreenOrEdge(o) == I16(o.x + o.width) >= 0

\* The predicate of retain: the right edge is still right of the field's left
OnScreen(o) == I16(o.x + o.width) > 0

\* Cull walls and obstacles which are off screen
Cull(f) ==
    [f EXCEPT !.walls = SelectSeq(@, OnScreen),
              !.obstacles = SelectSeq(@, OnScreen)]

\* NextSpeed with the friction multiplied in without the shift (a mutant)
NextSpeedNoShift(speed) == I16(I16(speed + GRAVITY) * FRICTION)

\* The speed after gravity and friction
NextSpeed(speed) ==
    I16((I16(speed + GRAVITY) \div (2 ^ FIXED_POINT_SHIFT)) * FRICTION)

\* BoundPlayer without the lower bound (a mutant)
BoundPlayerBelow(y) == Min(y, GAME_FIELD_HEIGHT - PLAYER_SIZE)

\* BoundPlayer against the field's height, the player's size forgotten (a
\* mutant)
BoundPlayerToField(y) == Clamp(y, 0, GAME_FIELD_HEIGHT)

\* Bound player
BoundPlayer(y) == Clamp(y, 0, GAME_FIELD_HEIGHT - PLAYER_SIZE)

\* Apply physics, adjust the player position and bound it
ApplyPhysics(f) ==
    LET speed == NextSpeed(f.player_speed)
    IN  [f EXCEPT !.player_speed = speed,
                  !.player_y = BoundPlayer(I16(f.player_y + speed))]

\* Overlap with <= in the place of < (a mutant: touching edges collide)
OverlapOrTouch(a1, a2, b1, b2, c1, c2, d1, d2) ==
    Max(a1, b1) <= Min(a2, b2) /\ Max(c1, d1) <= Min(c2, d2)

\* The test of the collision check on the two intervals of each axis
Overlap(a1, a2, b1, b2, c1, c2, d1, d2) ==
    Max(a1, b1) < Min(a2, b2) /\ Max(c1, d1) < Min(c2, d2)

\* One obstacle against the player's square
Collides(o, player_y) ==
    Overlap(o.x, I16(o.x + o.width), PLAYER_X, I16(PLAYER_X + PLAYER_SIZE),
            o.y, I16(o.y + o.height), player_y, I16(player_y + PLAYER_SIZE))

\* Check collisions: any hit marks the field dead
CheckCollisions(f) ==
    LET all == f.obstacles \o f.walls
    IN  IF \E i \in 1..Len(all) : Collides(all[i], f.player_y)
        THEN [f EXCEPT !.dead = TRUE]
        ELSE f

\* PhysicsStep with the collision check ahead of the player's move (a
\* mutant: the check sees the position of the step before)
PhysicsStepChecksFirst(f, mouse) ==
    LET g == ApplyPhysics(CheckCollisions(Cull(CreateWalls(MoveMap(
                 ApplyInput(f, mouse))))))
    IN  [g EXCEPT !.physics_frames = @ + 1]

\* PhysicsStep without the count of the step that detects death (a mutant)
PhysicsStepUncountedDeath(f, mouse) ==
    LET g == CheckCollisions(ApplyPhysics(Cull(CreateWalls(MoveMap(
                 ApplyInput(f, mouse))))))
    IN  IF g.dead THEN g ELSE [g EXCEPT !.physics_frames = @ + 1]

\* The body of render's physics branch
PhysicsStep(f, mouse) ==
    LET f1 == ApplyInput(f, mouse)
        f2 == MoveMap(f1)
        f3 == CreateWalls(f2)
        f4 == Cull(f3)
        f5 == ApplyPhysics(f4)
        f6 == CheckCollisions(f5)
    IN  [f6 EXCEPT !.physics_frames = @ + 1]

\* The rectangle drawn for an obstacle, cut to the game window
ObstacleObject(o) ==
    LET x   == Max(o.x, 0)
        end == Min(I16(o.x + o.width), GAME_FIELD_WIDTH)
    IN  Obstacle(x, o.y, I16(end - x), o.height)

\* draw_player's rectangle
PlayerObject(f) == Obstacle(PLAYER_X, f.player_y, PLAYER_SIZE, PLAYER_SIZE)

\* Draw that also moves the map, as if the scroll were per render call and
\* not per physics step (a mutant)
DrawMovesMap(f) ==
    LET g   == MoveMap(f)
        all == g.obstacles \o g.walls
    IN  [g EXCEPT !.objects = [i \in 1..Len(all) |-> ObstacleObject(all[i])]
                                  \o <<PlayerObject(g)>>,
                  !.frames = @ + 1]

\* The rest of render: rebuild the object list and count the frame
Draw(f) ==
    LET all == f.obstacles \o f.walls
    IN  [f EXCEPT !.objects = [i \in 1..Len(all) |-> ObstacleObject(all[i])]
                                  \o <<PlayerObject(f)>>,
                  !.frames = @ + 1]

---------------------------------------------------------------------------
(* The session: game() *)

\* n copies of byte b
RECURSIVE Repeat(_, _)
Repeat(b, n) == IF n = 0 THEN <<>> ELSE <<b>> \o Repeat(b, n - 1)

\* A replay file with bytes that are neither b'0' nor b'1'
NoisyReplay == <<ByteOne, 50, ByteOne, 0, ByteZero, ByteOne, 255, 10>>

\* A replay file whose 64th step flies into the first floating obstacle
CrashReplay ==
    Repeat(ByteZero, 21) \o Repeat(ByteOne, 5) \o <<ByteZero>>
        \o Repeat(ByteOne, 37)

\* The flying bits of the long replay file, sixteen to a word, the earliest
\* step in the most significant bit
LongReplayWords ==
    <<
        0, 1015, 34201, 39225, 57711, 65535, 1792, 27, 45932, 7397,
        23090, 15160, 51415, 3451, 2047, 65520, 28672, 986, 42582,
        27103, 65535, 65474, 32768, 1006, 14694, 6814, 65535, 65038,
        253, 65038, 0, 7533, 49612, 40290, 54067, 11571, 9201,
        19564, 50789, 45967, 65535, 49600, 30, 28846, 52840, 51640,
        45835, 52991, 65534, 3647, 65532, 10241, 65020, 10240,
        32752, 51391, 65520, 40960, 476, 57343, 65504, 57344, 110,
        49895, 25420, 54577, 30437, 18022, 19634, 46485, 38278,
        65535, 63588, 7, 52459, 65535, 63544, 14, 63487, 65535,
        57568, 0, 60841, 47190, 39321, 39309, 65535, 65535, 2560,
        1022, 3585, 64510, 5120, 250, 42592, 65093, 49151, 65505,
        36864, 235, 26529, 21626, 26221, 34143, 5057, 50092, 23334,
        45626, 50125, 53727, 65535, 65044, 0, 447, 10019, 12784,
        62219, 11465, 45516, 52783, 65535, 57568, 0, 63165, 18186,
        52428, 51925, 13100, 50416, 47549, 3467, 11095, 32766, 5231,
        65532, 7168, 0, 65038, 3919, 18017, 32041, 61439, 65504,
        57344
    >>

\* A replay file of 2300 bytes, each b'0' or b'1', that passes every wall and
\* obstacle it meets
LongReplay ==
    [i \in 1..2300 |->
        ByteZero + ((LongReplayWords[((i - 1) \div 16) + 1]
                         \div (2 ^ (15 - ((i - 1) % 16)))) % 2)]

\* The flying bits of a replay file that climbs to the top of the field
\* where the top walls have no height, packed like LongReplayWords
CeilingReplayWords ==
    <<
        0, 1015, 34201, 39225, 57711, 65535, 1792, 27, 45932, 7397,
        23090, 15160, 51415, 3451, 2047, 65520, 28672, 986, 42582,
        27103, 65535, 65474, 32768, 16383, 65535, 65535, 65535,
        57344
    >>

\* A replay file of 435 bytes whose last steps press the player against
\* the top of the field
CeilingReplay ==
    [i \in 1..435 |->
        ByteZero + ((CeilingReplayWords[((i - 1) \div 16) + 1]
                         \div (2 ^ (15 - ((i - 1) % 16)))) % 2)]

\* What std::env::args().nth(1) and std::fs::read give: no argument, or the
\* bytes of a replay file.  The files tried are an empty one, five b'1',
\* one with bytes that are neither b'0' nor b'1', one that climbs into a
\* wall and one that meets an obstacle
ReplayFiles ==
    { <<>>,
      Repeat(ByteOne, 5),
      NoisyReplay,
      Repeat(ByteOne, 45),
      CrashReplay }

ShortReplays == {None} \cup { Some(r) : r \in ReplayFiles }

\* The state of probe while no stand-alone function is being applied
NoProbe == [args |-> <<>>, done |-> TRUE, hit |-> FALSE]

\* A new field with the session's replay cloned into it
NewField == [GameFieldNew EXCEPT !.replay = replay]

Init ==
    /\ replay \in ShortReplays
    /\ field = NewField
    /\ high_score = 0
    /\ new_score = FALSE
    /\ probe = NoProbe

\* TrackScore that takes the field's physics_frames as the high score
\* whether or not it is greater (a mutant)
TrackScoreLast(f) ==
    /\ field' = f
    /\ high_score' = f.physics_frames
    /\ new_score' = (new_score \/ f.physics_frames > high_score)

\* The rest of the inner loop's body once render has returned false
TrackScore(f) ==
    /\ field' = f
    /\ high_score' = IF f.physics_frames > high_score
                     THEN f.physics_frames ELSE high_score
    /\ new_score' = (new_score \/ f.physics_frames > high_score)

\* Restart that does not look at the dead flag (a mutant)
RestartAlive ==
    /\ field' = NewField
    /\ new_score' = FALSE
    /\ UNCHANGED <<high_score, replay, probe>>

\* render returns true: the field is dead and space is pressed; game()
\* starts over with a new field (the write of inputs.bin on a new score is
\* file output and is not kept)
Restart ==
    /\ field.dead
    /\ field' = NewField
    /\ new_score' = FALSE
    /\ UNCHANGED <<high_score, replay, probe>>

\* RenderStep without the test of the dead flag (a mutant)
RenderStepWhileDead ==
    /\ field.replay = None => field.physics_frames < MaxLiveFrames
    /\ \E mouse \in BOOLEAN : TrackScore(Draw(PhysicsStep(field, mouse)))
    /\ UNCHANGED <<replay, probe>>

\* A render call in which at least 1/60 s has passed since the last step and
\* the field is alive: one physics step, then the drawing
RenderStep ==
    /\ ~field.dead
    /\ field.replay = None => field.physics_frames < MaxLiveFrames
    /\ \E mouse \in BOOLEAN : TrackScore(Draw(PhysicsStep(field, mouse)))
    /\ UNCHANGED <<replay, probe>>

\* A render call without a physics step: the field is dead and space is not
\* pressed, or too little time has passed
RenderIdle ==
    /\ field.frames - field.physics_frames < MaxIdleRenders
    /\ TrackScore(Draw(field))
    /\ UNCHANGED <<replay, probe>>

Next == RenderStep \/ RenderIdle \/ Restart

Spec == Init /\ [][Next]_vars

\* Sessions that replay a file, the long one among them
InitLong ==
    /\ replay \in { Some(r) :
                      r \in ReplayFiles \cup {LongReplay, CeilingReplay} }
    /\ field = NewField
    /\ high_score = 0
    /\ new_score = FALSE
    /\ probe = NoProbe

SpecLong == InitLong /\ [][Next]_vars


\* The collision test applied on its own to two rectangles with small
\* coordinates: args is <<a1, a2, b1, b2, c1, c2, d1, d2>>
InitOverlap ==
    /\ replay = None
    /\ field = NewField
    /\ high_score = 0
    /\ new_score = FALSE
    /\ probe \in { [args |-> a, done |-> FALSE, hit |-> FALSE] :
                      a \in [1..8 -> 0..MaxCoord] }

ApplyOverlap ==
    /\ ~probe.done
    /\ probe' = [probe EXCEPT
                    !.done = TRUE,
                    !.hit = Overlap(probe.args[1], probe.args[2], probe.args[3],
                                    probe.args[4], probe.args[5], probe.args[6],
                                    probe.args[7], probe.args[8])]
    /\ UNCHANGED <<field, high_score, new_score, replay>>

SpecOverlap == InitOverlap /\ [][ApplyOverlap]_vars


\* The values of an i16
I16_MIN == -(2 ^ 15)

I16_MAX == (2 ^ 15) - 1

\* impl From<i16> for Fxpt, with every outcome the multiplication
\* val * FIXED_POINT_DIVISOR has: the product when it fits an i16, and
\* when it does not, a panic in a build with overflow checks or the
\* product wrapped to 16 bits in a build without them
FxptFromOutcomes(val) ==
    IF I16_MIN <= val * FIXED_POINT_DIVISOR
           /\ val * FIXED_POINT_DIVISOR <= I16_MAX
    THEN { [panic |-> FALSE, value |-> val * FIXED_POINT_DIVISOR] }
    ELSE { [panic |-> TRUE, value |-> 0],
           [panic |-> FALSE, value |-> FxptFrom(val)] }

\* Fxpt::from applied on its own to any i16: args is <<val>>
InitFrom ==
    /\ replay = None
    /\ field = NewField
    /\ high_score = 0
    /\ new_score = FALSE
    /\ probe \in { [args |-> <<val>>, done |-> FALSE,
                    panic |-> FALSE, value |-> 0] : val \in I16_MIN..I16_MAX }

ApplyFrom ==
    /\ ~probe.done
    /\ \E out \in FxptFromOutcomes(probe.args[1]) :
           probe' = [probe EXCEPT !.done = TRUE,
                                  !.panic = out.panic,
                                  !.value = out.value]
    /\ UNCHANGED <<field, high_score, new_score, replay>>

SpecFrom == InitFrom /\ [][ApplyFrom]_vars

---------------------------------------------------------------------------
(* Properties *)

\* The elements of a sequence
Range(q) == { q[i] : i \in 1..Len(q) }

\* The part of a field that the simulation is made of
Core(f) ==
    [ player_y       |-> f.player_y,
      player_speed   |-> f.player_speed,
      walls          |-> f.walls,
      obstacles      |-> f.obstacles,
      wall_skew      |-> f.wall_skew,
      last_obstacle  |-> f.last_obstacle,
      rng            |-> f.rng,
      physics_frames |-> f.physics_frames,
      dead           |-> f.dead ]

\* Field f driven through physics steps i..k by render calls that each run
\* a step (a dead field runs none); bits are the mouse readings
RECURSIVE Drive(_, _, _, _)
Drive(f, bits, i, k) ==
    IF i > k \/ f.dead THEN f
    ELSE Drive(PhysicsStep(f, i <= Len(bits) /\ bits[i] = ByteOne),
               bits, i + 1, k)

\* A second field, made by GameField::new with replay r attached, after k
\* physics steps and no other render call
Rerun(r, bits, k) == Drive([GameFieldNew EXCEPT !.replay = r], bits, 1, k)

\* C1 (determinism): whatever render calls without a physics step came in
\* between, and in whichever attempt of the session, the field after k
\* physics steps equals a separately made field driven through k steps with
\* the same replay bytes (or, without a replay, the same input bits): same
\* player_y, player_speed, walls, obstacles, wall_skew, RNG state,
\* physics_frames and dead flag.
C1_Determinism ==
    Core(field) = Core(Rerun(replay, field.inputs, field.physics_frames))

\* A later attempt of a replay session, past the first walls, with a render
\* call without a physics step behind it
C1_Witness ==
    /\ replay # None
    /\ high_score > field.physics_frames
    /\ field.physics_frames >= 30
    /\ field.frames > field.physics_frames
    /\ ~field.dead

\* C2 (culling): every wall and obstacle kept has x + width > 0, and an
\* element whose right edge is at or left of 0 after the scroll of a step is
\* gone from its collection at the end of that step.
C2_AllOnScreen ==
    \A o \in Range(field.walls) \cup Range(field.obstacles) :
        o.x + o.width > 0

C2_StepCulls ==
    RenderStep =>
        /\ \A o \in Range(field.walls) :
              o.x - 8 * FIXED_POINT_DIVISOR + o.width <= 0 =>
                  [o EXCEPT !.x = @ - 8 * FIXED_POINT_DIVISOR]
                      \notin Range(field'.walls)
        /\ \A o \in Range(field.obstacles) :
              o.x - 8 * FIXED_POINT_DIVISOR + o.width <= 0 =>
                  [o EXCEPT !.x = @ - 8 * FIXED_POINT_DIVISOR]
                      \notin Range(field'.obstacles)

C2_Culling == []C2_AllOnScreen /\ [][C2_StepCulls]_vars

\* The first pair of walls has been culled, an obstacle too, and the leftmost
\* wall kept is partly off screen
C2_Witness ==
    /\ field.physics_frames >= 120
    /\ Len(field.walls) > 0
    /\ field.walls[1].x < 0
    /\ field.walls[1].x + field.walls[1].width > 0
    /\ field.last_obstacle >= 60
    /\ Len(field.obstacles) = 1

\* C3 (physics_frames): 0 in a new field, one more after every render call
\* that runs a physics step (the step that detects death included), the same
\* after a render call that runs none, and fixed while the field is dead.
C3_Counts ==
    /\ RenderStep => field'.physics_frames = field.physics_frames + 1
    /\ RenderIdle => field'.physics_frames = field.physics_frames
    /\ Restart => field'.physics_frames = 0
    /\ field.dead /\ ~Restart =>
           field'.physics_frames = field.physics_frames

C3_PhysicsFrames == field.physics_frames = 0 /\ [][C3_Counts]_vars

\* A field whose last physics step detected death and was counted
C3_Witness ==
    /\ field.dead
    /\ field.physics_frames = 33
    /\ field.frames > field.physics_frames


\* Rectangle o and the player's square at y share a point: both are not
\* empty and each starts before the other ends, on both axes
Hits(o, y) ==
    /\ o.width > 0 /\ o.height > 0
    /\ o.x < PLAYER_X + PLAYER_SIZE /\ PLAYER_X < o.x + o.width
    /\ o.y < y + PLAYER_SIZE /\ y < o.y + o.height

\* C4 (death detection): at the end of every physics step the field is dead
\* exactly if a wall or obstacle left after the cull overlaps the player's
\* square at its new position, and a dead field never comes back to life.
C4_Step ==
    /\ RenderStep =>
          (field'.dead <=>
              \E o \in Range(field'.walls) \cup Range(field'.obstacles) :
                  Hits(o, field'.player_y))
    /\ field.dead /\ ~Restart => field'.dead

C4_DeathDetection == [][C4_Step]_vars

\* Death by the floating obstacle alone: no wall overlaps the player
C4_Witness ==
    /\ field.dead
    /\ \E o \in Range(field.obstacles) : Hits(o, field.player_y)
    /\ \A o \in Range(field.walls) : ~Hits(o, field.player_y)

\* C5 (frozen while dead): a render call on a dead field that does not
\* restart leaves everything but frames and objects as it was: player, walls,
\* obstacles, skew, last_obstacle, RNG, physics_frames, the input log and the
\* replay queue.
C5_Step ==
    field.dead /\ ~Restart =>
        /\ Core(field') = Core(field)
        /\ field'.inputs = field.inputs
        /\ field'.replay = field.replay

C5_FrozenWhileDead == [][C5_Step]_vars

\* A dead field that has been rendered, with replay bytes left in its queue
C5_Witness ==
    /\ field.dead
    /\ field.frames > field.physics_frames
    /\ field.replay # None
    /\ field.replay[1] # <<>>

\* C6 (collision strictness): the test is true exactly if the half-open
\* rectangles [a1,a2) x [c1,c2) and [b1,b2) x [d1,d2) share a unit cell,
\* which is max(a1,b1) < min(a2,b2) and max(c1,d1) < min(c2,d2) written out;
\* rectangles that only share an edge never collide.
C6_CollisionStrictness ==
    probe.done /\ probe.args # <<>> =>
        LET a1 == probe.args[1]
            a2 == probe.args[2]
            b1 == probe.args[3]
            b2 == probe.args[4]
            c1 == probe.args[5]
            c2 == probe.args[6]
            d1 == probe.args[7]
            d2 == probe.args[8]
        IN  /\ probe.hit <=>
                  \E px, py \in 0..MaxCoord :
                      /\ a1 <= px /\ px < a2 /\ b1 <= px /\ px < b2
                      /\ c1 <= py /\ py < c2 /\ d1 <= py /\ py < d2
            /\ probe.hit <=>
                  /\ a1 < a2 /\ a1 < b2 /\ b1 < a2 /\ b1 < b2
                  /\ c1 < c2 /\ c1 < d2 /\ d1 < c2 /\ d1 < d2
            /\ (a2 = b1 \/ b2 = a1 \/ c2 = d1 \/ d2 = c1) => ~probe.hit

\* Two rectangles that overlap by exactly one unit on each axis collide
C6_Witness ==
    /\ probe.done
    /\ probe.args = <<0, 2, 1, 2, 1, 2, 0, 2>>
    /\ probe.hit


\* The gap left by the i-th pair of walls: from the lower edge of the top
\* wall to the upper edge of the bottom wall
GapLeft(i) ==
    field.walls[2 * i].y
        - (field.walls[2 * i - 1].y + field.walls[2 * i - 1].height)

\* Whether the first pair of walls the field created is still its first
FirstPairKept ==
    /\ Len(field.walls) >= 2
    /\ field.walls[1].x
           = GAME_FIELD_WIDTH
                 - (field.physics_frames - 1) * 8 * FIXED_POINT_DIVISOR

\* C7 (gap monotonicity): over the successive pairs of walls the gap left
\* never grows, starts at 250 pixels, never goes below 180 pixels and, once at
\* 180 pixels, stays there.
C7_GapMonotone ==
    LET n == Len(field.walls) \div 2
    IN  /\ Len(field.walls) = 2 * n
        /\ \A i \in 1..n :
              /\ GapLeft(i) >= 180 * FIXED_POINT_DIVISOR
              /\ GapLeft(i) <= 250 * FIXED_POINT_DIVISOR
        /\ \A i \in 2..n : GapLeft(i) <= GapLeft(i - 1)
        /\ \A i \in 1..n : \A j \in i..n :
              GapLeft(i) = 180 * FIXED_POINT_DIVISOR =>
                  GapLeft(j) = 180 * FIXED_POINT_DIVISOR
        /\ FirstPairKept => GapLeft(1) = 250 * FIXED_POINT_DIVISOR

\* Every pair on the field was created after the gap had reached 180 pixels
\* at physics frame 70 * 32
C7_Witness ==
    /\ field.physics_frames >= 70 * 32 + 60
    /\ Len(field.walls) >= 2
    /\ \A i \in 1..(Len(field.walls) \div 2) :
          GapLeft(i) = 180 * FIXED_POINT_DIVISOR

\* The lowest position of the player
Floor == GAME_FIELD_HEIGHT - PLAYER_SIZE

\* No step of the field has flown, this one included: the replay file holds no
\* b'1' or, without a replay, the input log after the step holds none
NoFlight ==
    IF replay = None
    THEN \A i \in 1..Len(field'.inputs) : field'.inputs[i] = ByteZero
    ELSE \A i \in 1..Len(replay[1]) : replay[1][i] # ByteOne

\* C8 (straight fall): a new field starts with the player at half the
\* field's height and speed 0; while no step flies, every physics step moves
\* the player strictly down until player_y is GAME_FIELD_HEIGHT - PLAYER_SIZE,
\* and leaves it there from then on.
C8_Step ==
    /\ RenderStep /\ NoFlight =>
          IF field.player_y < Floor
          THEN field'.player_y > field.player_y /\ field'.player_y <= Floor
          ELSE field'.player_y = Floor
    /\ Restart =>
          /\ field'.player_y = GAME_FIELD_HEIGHT \div 2
          /\ field'.player_speed = 0

C8_StraightFall ==
    /\ field.player_y = GAME_FIELD_HEIGHT \div 2
    /\ field.player_speed = 0
    /\ [][C8_Step]_vars

\* The player has been at the bottom for several steps of a flightless field
C8_Witness ==
    /\ ~field.dead
    /\ field.player_y = Floor
    /\ field.physics_frames >= 30
    /\ \A i \in 1..Len(field.inputs) : field.inputs[i] = ByteZero

\* The speed after a physics step, by the numbers: impulse 64 if the step
\* flies, gravity 51, shift by 5, friction 28
SpeedAfter(speed, fly) ==
    ((speed - (IF fly THEN 64 ELSE 0) + 51) \div 32) * 28

\* C9 (replay input): with a replay of L bytes attached, the k-th physics
\* step finds bytes k..L in the queue and leaves bytes k+1..L; the impulse is
\* applied exactly if k <= L and byte k is b'1', whatever the mouse button
\* does; a step on an exhausted queue is a step like any other, and the
\* field stops only by a collision, never by the end of the replay.
C9_Step ==
    RenderStep /\ replay # None =>
        LET bytes == replay[1]
            L     == Len(bytes)
            k     == field.physics_frames + 1
            fly   == k <= L /\ bytes[k] = ByteOne
        IN  /\ field.replay = Some(SubSeq(bytes, k, L))
            /\ field'.replay = Some(SubSeq(bytes, k + 1, L))
            /\ field'.player_speed = SpeedAfter(field.player_speed, fly)
            /\ field'.physics_frames = k

C9_StopsOnHit ==
    replay # None /\ field.dead =>
        \E o \in Range(field.walls) \cup Range(field.obstacles) :
            Hits(o, field.player_y)

C9_ReplayInput == []C9_StopsOnHit /\ [][C9_Step]_vars

\* Five b'1' replayed as five impulses, then steps that do not fly
C9_Witness ==
    /\ replay = Some(Repeat(ByteOne, 5))
    /\ field.replay = Some(<<>>)
    /\ field.physics_frames >= 8
    /\ SubSeq(field.inputs, 1, 8)
           = Repeat(ByteOne, 5) \o Repeat(ByteZero, 3)
    /\ ~field.dead

\* C10 (input log): every physics step appends one byte, b'1' exactly if the
\* impulse was applied and b'0' otherwise; so the log is as long as
\* physics_frames, holds only b'0' and b'1', and a new field that replays the
\* log arrives, step for step, at the same state and the same death frame.
C10_Log ==
    /\ Len(field.inputs) = field.physics_frames
    /\ \A i \in 1..Len(field.inputs) : field.inputs[i] \in {ByteZero, ByteOne}
    /\ LET again == Rerun(Some(field.inputs), <<>>, field.physics_frames)
       IN  /\ Core(again) = Core(field)
           /\ again.inputs = field.inputs

C10_Step ==
    RenderStep =>
        \E b \in {ByteZero, ByteOne} :
            /\ field'.inputs = Append(field.inputs, b)
            /\ field'.player_speed
                   = SpeedAfter(field.player_speed, b = ByteOne)

C10_InputLog == []C10_Log /\ [][C10_Step]_vars

\* A finished attempt whose log differs from the file it replayed
C10_Witness ==
    /\ field.dead
    /\ replay = Some(NoisyReplay)
    /\ SubSeq(field.inputs, 1, 8)
           = <<ByteOne, ByteZero, ByteOne, ByteZero,
               ByteZero, ByteOne, ByteZero, ByteZero>>


\* C11 (player bounds): in every reachable state
\* 0 <= player_y <= GAME_FIELD_HEIGHT - PLAYER_SIZE = 8064, so the player's
\* square lies inside the field from top to bottom.
C11_PlayerBounds ==
    /\ 0 <= field.player_y
    /\ field.player_y <= Floor
    /\ Floor = 8064
    /\ field.player_y + PLAYER_SIZE <= GAME_FIELD_HEIGHT

\* An alive player held at the top of the field by the lower bound: without
\* it the speed of the last step would have taken player_y below 0
C11_Witness ==
    /\ ~field.dead
    /\ field.player_y = 0
    /\ field.player_speed < 0

\* C12 (checked construction): constructing an Fxpt from an i16 n gives
\* n * 32 when n * 32 fits an i16, and otherwise fails and never gives a
\* value wrapped modulo 2^16.
C12_CheckedConstruction ==
    probe.done =>
        LET n == probe.args[1]
        IN  IF I16_MIN <= n * 32 /\ n * 32 <= I16_MAX
            THEN ~probe.panic /\ probe.value = n * 32
            ELSE probe.panic

\* C13 (high score): high_score never decreases and a restart leaves it as
\* it is; after every render call that does not restart it is the greatest
\* physics_frames reached by any attempt so far, the current one included:
\* the greater of what it was and the field's physics_frames, which are 0
\* in a new field and grow by one per step.  So it is never below the
\* current physics_frames, equals them in an attempt that has set a new
\* score, and in a session that replays a file (where every attempt runs
\* the same steps) equals the frame at which each attempt dies.
C13_Best ==
    /\ high_score >= field.physics_frames
    /\ new_score => high_score = field.physics_frames
    /\ replay # None /\ field.dead => high_score = field.physics_frames

C13_Step ==
    /\ high_score' >= high_score
    /\ Restart => high_score' = high_score /\ field'.physics_frames = 0
    /\ ~Restart =>
           /\ high_score' = Max(high_score, field'.physics_frames)
           /\ field'.physics_frames \in
                  {field.physics_frames, field.physics_frames + 1}

C13_HighScore == []C13_Best /\ [][C13_Step]_vars

\* A later attempt under way below the high score of an earlier one
C13_Witness ==
    /\ ~field.dead
    /\ field.physics_frames > 0
    /\ high_score > field.physics_frames
    /\ ~new_score

\* C14 (restart lifecycle): the field is replaced only in a render call
\* that finds it dead (an alive field is rendered and stays), and that call
\* runs no physics step; the new field is in the initial state: RNG at the
\* seed 0x1337133713371337, physics_frames 0, player_y at half the height,
\* speed 0, no walls or obstacles, skew 0, alive, empty input log; and with
\* a replay attached it holds all the bytes of the file again, however many
\* the earlier attempts consumed.
C14_Step ==
    /\ ~field.dead => field'.frames = field.frames + 1
    /\ field'.frames <= field.frames =>
           /\ field.dead
           /\ field'.frames = 0
           /\ field'.rng = { (16 * w) + b : w \in 0..3,
                                            b \in {0, 1, 2, 4, 5, 8, 9, 12} }
           /\ field'.physics_frames = 0
           /\ field'.player_y = 150 * 32
           /\ field'.player_speed = 0
           /\ field'.walls = <<>>
           /\ field'.obstacles = <<>>
           /\ field'.wall_skew = 0
           /\ field'.last_obstacle = 0
           /\ ~field'.dead
           /\ field'.inputs = <<>>
           /\ field'.replay = replay
           /\ replay' = replay

C14_RestartLifecycle == [][C14_Step]_vars

\* A new field with the whole replay again, after an attempt that consumed
\* all of it and set a high score
C14_Witness ==
    /\ field.frames = 0
    /\ high_score > 0
    /\ replay # None
    /\ Len(replay[1]) > 0
    /\ high_score > Len(replay[1])
    /\ field.replay = replay

\* What a physics step does to the walls if, after the scroll by 8 pixels,
\* it creates a pair exactly when the reference X is at most the field's
\* width minus a wall's width; the reference X is the X of the rightmost
\* wall, or edge when there is no wall.  The new pair stands one wall's
\* width right of the reference X, behind the walls that stay on screen.
SpawnsBy(edge) ==
    RenderStep =>
        LET xs   == { field.walls[i].x - (8 * 32) : i \in 1..Len(field.walls) }
            ref  == IF xs = {} THEN edge
                    ELSE CHOOSE x \in xs : \A y \in xs : y <= x
            due  == ref <= (400 * 32) - (25 * 32)
            kept == Cardinality({ i \in 1..Len(field.walls) :
                        field.walls[i].x - (8 * 32) + field.walls[i].width > 0 })
            n    == Len(field'.walls)
        IN  /\ n = kept + (IF due THEN 2 ELSE 0)
            /\ due => /\ field'.walls[n - 1].x = ref + (25 * 32)
                      /\ field'.walls[n].x = ref + (25 * 32)
            /\ ~due /\ n > 0 => field'.walls[n].x = ref

\* C15 as stated (spawn trigger): after scrolling, a physics step creates a
\* pair of walls if and only if the reference X is at most the field's width
\* minus a wall's width, the reference X being the X of the rightmost wall
\* or, if there is no wall, the field's width.
C15_EdgeIsFieldWidth == [][SpawnsBy(400 * 32)]_vars

\* C15 (spawn trigger, amended): as above, but with no wall the reference X
\* is the field's width minus a wall's width, so that the first step of a
\* field always creates a pair, at X = the field's width.
C15_SpawnTrigger == [][SpawnsBy((400 * 32) - (25 * 32))]_vars

\* The first step of a field has found no wall and has created the first
\* pair at the field's right edge
C15_Witness ==
    /\ field.physics_frames = 1
    /\ Len(field.walls) = 2
    /\ field.walls[1].x = GAME_FIELD_WIDTH
    /\ field.walls[2].x = GAME_FIELD_WIDTH

\* The gap, in units, of the walls created at physics frame pf
GapAt(pf) == (250 - Min(pf \div 32, 70)) * 32

\* Whether v is a value of an i16
FitsI16(v) == -32768 <= v /\ v <= 32767

\* C16 (wall pair geometry): the walls are stored as (top, bottom) pairs
\* with one x and the width OBSTACLE_WIDTH; of every pair the top wall has
\* y = 0 and height >= 0, the bottom wall has height >= 0 and ends at the
\* field's height, and between them lies a gap that was in force at some
\* frame, inside the field; the last pair carries the current wall_skew.
C16_Pairs ==
    /\ Len(field.walls) % 2 = 0
    /\ \A k \in 1..(Len(field.walls) \div 2) :
           LET top    == field.walls[(2 * k) - 1]
               bottom == field.walls[2 * k]
           IN  /\ top.x = bottom.x
               /\ top.width = OBSTACLE_WIDTH
               /\ bottom.width = OBSTACLE_WIDTH
               /\ top.y = 0
               /\ top.height >= 0
               /\ bottom.height >= 0
               /\ bottom.y + bottom.height = GAME_FIELD_HEIGHT
               /\ 0 <= top.height
               /\ top.height < bottom.y
               /\ bottom.y <= GAME_FIELD_HEIGHT
               /\ \E r \in 0..70 :
                      top.height + ((250 - r) * 32) + bottom.height
                          = GAME_FIELD_HEIGHT
    /\ Len(field.walls) > 0 =>
           field.walls[Len(field.walls) - 1].height
               - field.walls[Len(field.walls)].height = 2 * field.wall_skew

\* A step that creates a pair at physics frame pf leaves the wall_skew
\* within [-wall_size, wall_size] for wall_size = (height - gap) / 2 and the
\* gap of frame pf, and gives the pair the heights wall_size + wall_skew and
\* wall_size - wall_skew, so that top.height + gap + bottom.height is the
\* field's height; no computation leaves the 16 bits: each result is the
\* result in unbounded integers.  A step that creates no pair leaves the
\* wall_skew alone.
C16_Step ==
    RenderStep =>
        LET pf        == field.physics_frames
            gap       == GapAt(pf)
            wall_size == (GAME_FIELD_HEIGHT - gap) \div 2
            raw       == field.wall_skew
                           + RemTrunc(RandI16(field.rng), 32 * 8)
            skew      == field'.wall_skew
            n         == Len(field'.walls)
        IN  IF SpawnDue(MoveMap(field))
            THEN /\ FitsI16(gap) /\ FitsI16(raw)
                 /\ 2 * wall_size = GAME_FIELD_HEIGHT - gap
                 /\ -wall_size <= skew /\ skew <= wall_size
                 /\ skew = Clamp(raw, -wall_size, wall_size)
                 /\ field'.walls[n - 1].height = wall_size + skew
                 /\ field'.walls[n].height = wall_size - skew
                 /\ field'.walls[n].y = GAME_FIELD_HEIGHT - (wall_size - skew)
                 /\ field'.walls[n - 1].height + gap + field'.walls[n].height
                        = GAME_FIELD_HEIGHT
                 /\ FitsI16(LastX(MoveMap(field)) + OBSTACLE_WIDTH)
                 /\ field'.walls[n].x = LastX(MoveMap(field)) + OBSTACLE_WIDTH
            ELSE skew = field.wall_skew

C16_WallPairs == []C16_Pairs /\ [][C16_Step]_vars

\* A pair whose top wall has no height: the clamp has held the wall_skew at
\* -wall_size
C16_Witness ==
    /\ Len(field.walls) >= 4
    /\ field.walls[Len(field.walls) - 1].height = 0
    /\ field.walls[Len(field.walls)].height > 0

\* Whether the step from field to field' has created a floating obstacle:
\* the obstacles are the old ones still on screen after the scroll, and one
\* more
ObstacleSpawned ==
    Len(field'.obstacles)
        = 1 + Cardinality({ i \in 1..Len(field.obstacles) :
                  field.obstacles[i].x - (8 * 32)
                      + field.obstacles[i].width > 0 })

\* C17 (floating obstacle containment): an obstacle created in a step has
\* the x and the width of the pair of walls created in that step, the height
\* 60 * 32, and lies in the pair's gap: y >= top.y + top.height and
\* y + height <= bottom.y; its offset below the top wall is the 16 low bits
\* of the second number drawn, modulo gap - 60 * 32, which is positive and,
\* like the offset, a value of an i16.  As walls and obstacles only move
\* left together, every obstacle stays in the gap of the pair at its x.
C17_Step ==
    RenderStep /\ ObstacleSpawned =>
        LET pf       == field.physics_frames
            n        == Len(field'.walls)
            top      == field'.walls[n - 1]
            bottom   == field'.walls[n]
            o        == field'.obstacles[Len(field'.obstacles)]
            modulus  == GapAt(pf) - (60 * 32)
            location == RandU16(RngAdvance(field.rng)) % modulus
        IN  /\ SpawnDue(MoveMap(field))
            /\ modulus > 0
            /\ FitsI16(modulus)
            /\ FitsI16(location)
            /\ FitsI16(top.height + location)
            /\ o.x = top.x
            /\ o.x = bottom.x
            /\ o.width = top.width
            /\ o.height = 60 * 32
            /\ o.y = top.height + location
            /\ o.y >= top.y + top.height
            /\ o.y + o.height <= bottom.y

C17_InGap ==
    \A i \in 1..Len(field.obstacles) :
        LET o == field.obstacles[i]
        IN  /\ o.height = 60 * 32
            /\ o.width = OBSTACLE_WIDTH
            /\ \E k \in 1..(Len(field.walls) \div 2) :
                   /\ field.walls[(2 * k) - 1].x = o.x
                   /\ field.walls[2 * k].x = o.x
                   /\ o.y >= field.walls[(2 * k) - 1].height
                   /\ o.y + o.height <= field.walls[2 * k].y

C17_ObstacleInGap == []C17_InGap /\ [][C17_Step]_vars

\* An obstacle created by the step just run, in the narrowest gap (180
\* pixels, of which its height leaves 120)
C17_Witness ==
    /\ field.physics_frames > 70 * 32
    /\ field.last_obstacle = field.physics_frames - 1
    /\ Len(field.obstacles) > 0
    /\ field.obstacles[Len(field.obstacles)].x
           = field.walls[Len(field.walls)].x

\* C18 (floating obstacle spacing): a physics step creates an obstacle if
\* and only if it creates a pair of walls and physics_frames - last_obstacle
\* >= 30 at that moment; then last_obstacle becomes the index of that frame,
\* and otherwise it stays.  So no obstacle is created before frame 30, two
\* creations are at least 30 frames apart, last_obstacle <= physics_frames
\* always, and last_obstacle is the frame of the latest creation: the latest
\* obstacle, moved back right by the scrolls since, stands where a new pair
\* is put.
C18_Step ==
    RenderStep =>
        LET pf == field.physics_frames
        IN  /\ ObstacleSpawned <=>
                   /\ SpawnDue(MoveMap(field))
                   /\ pf - field.last_obstacle >= 30
            /\ ObstacleSpawned =>
                   /\ pf >= 30
                   /\ field'.last_obstacle = pf
                   /\ field'.last_obstacle - field.last_obstacle >= 30
            /\ ~ObstacleSpawned =>
                   /\ field'.last_obstacle = field.last_obstacle
                   /\ Len(field'.obstacles) <= Len(field.obstacles)

C18_Last ==
    /\ 0 <= field.last_obstacle
    /\ field.last_obstacle <= field.physics_frames
    /\ field.physics_frames <= 30 => field.obstacles = <<>>
    /\ field.obstacles = <<>> => field.last_obstacle = 0
    /\ field.obstacles # <<>> =>
           LET o    == field.obstacles[Len(field.obstacles)]
               back == o.x + ((8 * 32)
                          * (field.physics_frames - 1 - field.last_obstacle))
           IN  /\ field.last_obstacle >= 30
               /\ (400 * 32) - (8 * 32) < back
               /\ back <= 400 * 32
    /\ \A i \in 1..(Len(field.obstacles) - 1) :
           field.obstacles[i + 1].x - field.obstacles[i].x > (8 * 32) * 29

C18_ObstacleSpacing == []C18_Last /\ [][C18_Step]_vars

\* The second obstacle of a field, created by the step just run
C18_Witness ==
    /\ Len(field.obstacles) = 2
    /\ field.last_obstacle = field.physics_frames - 1
    /\ field.last_obstacle > 60

\* SpeedAfter applied n times with the same input
RECURSIVE SpeedAfterN(_, _, _)
SpeedAfterN(speed, fly, n) ==
    IF n = 0 THEN speed ELSE SpeedAfterN(SpeedAfter(speed, fly), fly, n - 1)

\* Whether the last n bytes of the input log are all b
LastInputs(n, b) ==
    /\ Len(field.inputs) >= n
    /\ \A i \in (Len(field.inputs) - n + 1)..Len(field.inputs) :
           field.inputs[i] = b

\* C19 (bounded speed): a physics step sets the speed to
\* ((speed - (64 if flying) + 51) >> 5) * 28, the shift rounding down; from a
\* new field the speed is always a multiple of 28 in [-112, 140], so neither
\* the update nor player_y + speed leaves the 16 bits; steps that never fly
\* bring the speed to 140 and steps that always fly bring it to -112, within
\* eight steps from any speed, and keep it there.
C19_Speed ==
    /\ GRAVITY = 51 /\ FRICTION = 28 /\ INPUT_IMPULSE = 64
    /\ field.player_speed % 28 = 0
    /\ -112 <= field.player_speed
    /\ field.player_speed <= 140
    /\ SpeedAfterN(field.player_speed, FALSE, 8) = 140
    /\ SpeedAfter(140, FALSE) = 140
    /\ SpeedAfterN(field.player_speed, TRUE, 8) = -112
    /\ SpeedAfter(-112, TRUE) = -112
    /\ LastInputs(8, ByteZero) => field.player_speed = 140
    /\ LastInputs(8, ByteOne) => field.player_speed = -112

C19_Step ==
    RenderStep =>
        LET fly   == field'.inputs[Len(field'.inputs)] = ByteOne
            given == field.player_speed - (IF fly THEN 64 ELSE 0)
            speed == SpeedAfter(field.player_speed, fly)
        IN  /\ FitsI16(given)
            /\ FitsI16(given + 51)
            /\ FitsI16(((given + 51) \div 32) * 28)
            /\ field'.player_speed = speed
            /\ FitsI16(field.player_y + speed)
            /\ field'.player_y
                   = Clamp(field.player_y + speed, 0, Floor)

C19_BoundedSpeed == []C19_Speed /\ [][C19_Step]_vars

\* Live play that has flown in every step and has come to the speed -112
C19_Witness ==
    /\ replay = None
    /\ field.physics_frames >= 6
    /\ \A i \in 1..Len(field.inputs) : field.inputs[i] = ByteOne
    /\ field.player_speed = -112
    /\ ~field.dead

\* The part of a field that makes the layout
Layout(f) ==
    [ walls         |-> f.walls,
      obstacles     |-> f.obstacles,
      wall_skew     |-> f.wall_skew,
      last_obstacle |-> f.last_obstacle,
      rng           |-> f.rng ]

\* Whether the step from field to field' has created a pair of walls: the
\* walls are the old ones still on screen after the scroll, and two more
PairSpawned ==
    Len(field'.walls)
        = 2 + Cardinality({ i \in 1..Len(field.walls) :
                  field.walls[i].x - (8 * 32) + field.walls[i].width > 0 })

\* C20 (layout independent of input): after the same number n of physics
\* steps two new fields have the same walls, obstacles, wall_skew,
\* last_obstacle and RNG state whatever their inputs were: the field has
\* the layout of a field that never flew and ran as many steps; a step
\* makes the next layout from the layout and the frame number alone, not
\* from the player or the input; and the RNG moves only with what is
\* created, once for a pair of walls and once more for an obstacle.
C20_SameAsNeverFlown ==
    LET other == Rerun(Some(<<>>), <<>>, field.physics_frames)
    IN  other.physics_frames = field.physics_frames =>
            Layout(field) = Layout(other)

C20_Step ==
    RenderStep =>
        LET bare == [GameFieldNew EXCEPT
                        !.walls = field.walls,
                        !.obstacles = field.obstacles,
                        !.wall_skew = field.wall_skew,
                        !.last_obstacle = field.last_obstacle,
                        !.rng = field.rng,
                        !.physics_frames = field.physics_frames]
        IN  /\ Layout(field') = Layout(Cull(CreateWalls(MoveMap(bare))))
            /\ field'.rng =
                   IF ~PairSpawned THEN field.rng
                   ELSE IF ~ObstacleSpawned THEN RngAdvance(field.rng)
                   ELSE RngAdvance(RngAdvance(field.rng))

C20_LayoutIndependent == []C20_SameAsNeverFlown /\ [][C20_Step]_vars

\* A field that has flown, level with a field that never flew, after the 33
\* steps that created eleven pairs of walls and the first obstacle
C20_Witness ==
    /\ field.physics_frames = 33
    /\ \E i \in 1..Len(field.inputs) : field.inputs[i] = ByteOne
    /\ Len(field.obstacles) = 1
    /\ Rerun(Some(<<>>), <<>>, 33).physics_frames = 33
    /\ Rerun(Some(<<>>), <<>>, 33).player_y # field.player_y
    /\ field.rng # RngNew

=============================================================================
